---- MODULE Spec2Model ----
(***************************************************************************)
(* Model of the ICM conversion in source/cicm/icm.py.                      *)
(*                                                                         *)
(* A Gate holds references to its targets and controls lists (qutip's Gate *)
(* keeps the list object it is given), so the lists live in a heap and a   *)
(* gate record carries list ids.  Id 0 stands for None.  Two gates built   *)
(* from the same list object carry the same id.                            *)
(*                                                                         *)
(* The circuit handed to Icm is taken as already expressed in the basis    *)
(* RX, RZ, CNOT, SNOT, TOFFOLI (plus the GLOBALPHASE gates the resolver    *)
(* emits): resolve_gates belongs to the circuit library.                   *)
(***************************************************************************)
EXTENDS Integers, Sequences, FiniteSets, TLC

\* ------------------------------------------------------------------ bounds
\* the functions that leave the circuit's lists alone are tried on every
\* circuit of at most MaxGates gates on NumQubits qubits
NumQubits == 3
MaxGates == 2
\* to_icm is tried on every circuit of at most MaxIcmGates gates on IcmQubits
\* qubits and of at most MaxWideGates gates on NumQubits qubits
IcmQubits == 2
MaxIcmGates == 2
MaxWideGates == 1
\* the graph functions are tried on the circuit to_icm returns for every
\* circuit of at most MaxCnots CNOTs on GraphQubits qubits and for every
\* circuit of CNOTs, SNOTs and P, V, T rotations of at most MaxIcmGates gates
\* on IcmQubits qubits, and on the circuits of CNOTs as they are; at most
\* MaxCalls calls follow construct_icm_graph, with opt1, opt2 in 0..MaxOpt and
\* count in 0..MaxCount
GraphQubits == 3
MaxCnots == 3
MaxCalls == 2
MaxOpt == 1
MaxCount == 2

\* ------------------------------------------------------- gates and circuits
None == 0
NoArg == "None"

Gate(name, targets, controls, arg_value, arg_label) ==
    [name |-> name, targets |-> targets, controls |-> controls,
     arg_value |-> arg_value, arg_label |-> arg_label]

NoCircuit == [N |-> 0, gates |-> <<>>]

\* the first element of a gate's targets / controls list
Target(heap, g) == heap[g.targets][1]
Control(heap, g) == heap[g.controls][1]
\* Python truthiness of gate.controls: neither None nor an empty list
HasControls(heap, g) == g.controls # None /\ heap[g.controls] # <<>>

\* A gate as the program text writes it: name, the values of the targets and
\* controls list literals (<<>> for an argument left out), angle value, label.
Desc5(name, t, c, arg_value, arg_label) ==
    [name |-> name, t |-> t, c |-> c, value |-> arg_value, label |-> arg_label]

\* Gate(...) evaluated for each descriptor in turn: every list literal is a
\* new list object, placed after the lists the heap holds already.
ListsBefore(ds, k) ==
    Cardinality({j \in 1..(k - 1) : ds[j].t # <<>>})
        + Cardinality({j \in 1..(k - 1) : ds[j].c # <<>>})
TargetsId(heap, ds, k) ==
    IF ds[k].t = <<>> THEN None ELSE Len(heap) + ListsBefore(ds, k) + 1
ControlsId(heap, ds, k) ==
    IF ds[k].c = <<>> THEN None
    ELSE Len(heap) + ListsBefore(ds, k) + (IF ds[k].t = <<>> THEN 1 ELSE 2)
NewLists(heap, ds) ==
    [m \in 1..ListsBefore(ds, Len(ds) + 1) |->
        LET k == CHOOSE k \in 1..Len(ds) :
                     \/ TargetsId(heap, ds, k) = Len(heap) + m
                     \/ ControlsId(heap, ds, k) = Len(heap) + m
        IN  IF TargetsId(heap, ds, k) = Len(heap) + m THEN ds[k].t
            ELSE ds[k].c]

\* returns [gates, heap]: the new gates and the heap with their lists
NewGates(heap, ds) ==
    [gates |-> <<>> \o [k \in 1..Len(ds) |->
                   Gate(ds[k].name, TargetsId(heap, ds, k),
                        ControlsId(heap, ds, k), ds[k].value, ds[k].label)],
     heap |-> heap \o NewLists(heap, ds)]

\* a store: the gates written so far together with the heap
AddGate(st, g) == [st EXCEPT !.gates = Append(@, g)]
AddNewGates(st, ds) ==
    LET n == NewGates(st.heap, ds)
    IN  [gates |-> st.gates \o n.gates, heap |-> n.heap]

icm_gate_dict_wide ==
    (<<"RZ", "pi/2">> :> "P") @@ (<<"RZ", "pi/4">> :> "T") @@
    (<<"RX", "pi/2">> :> "V") @@ (<<"RZ", "-pi/2">> :> "P_dagger") @@
    (<<"RZ", "-pi/4">> :> "T_dagger") @@ (<<"RX", "-pi/2">> :> "V_dagger") @@
    (<<"RX", "pi/4">> :> "T") @@ (<<"RX", "-pi/4">> :> "T_dagger")
_icm_gate_dict ==
    (<<"RZ", "pi/2">> :> "P") @@ (<<"RZ", "pi/4">> :> "T") @@
    (<<"RX", "pi/2">> :> "V") @@ (<<"RZ", "-pi/2">> :> "P_dagger") @@
    (<<"RZ", "-pi/4">> :> "T_dagger") @@ (<<"RX", "-pi/2">> :> "V_dagger")

\* pgate / tgate / vgate: the (name, arg_value, arg_label) of the Gate built
pgate_flipped(dagger) == IF dagger THEN <<"RZ", "pi/2", "pi/2">>
                                   ELSE <<"RZ", "-pi/2", "-pi/2">>
pgate(dagger) == IF dagger THEN <<"RZ", "-pi/2", "-pi/2">>
                           ELSE <<"RZ", "pi/2", "pi/2">>
tgate_plain(dagger) == <<"RZ", "pi/4", "pi/4">>
tgate(dagger) == IF dagger THEN <<"RZ", "-pi/4", "-pi/4">>
                           ELSE <<"RZ", "pi/4", "pi/4">>
vgate(dagger) == IF dagger THEN <<"RX", "-pi/2", "-pi/2">>
                           ELSE <<"RX", "pi/2", "pi/2">>

\* pgate(targets=[t]) and the like: a rotation on a list of its own
Rot(rot, t) == Desc5(rot[1], <<t>>, <<>>, rot[2], rot[3])
Cnot(c, t) == Desc5("CNOT", <<t>>, <<c>>, NoArg, NoArg)
Snot(t) == Desc5("SNOT", <<t>>, <<>>, NoArg, NoArg)

\* ------------------------------------------------------- decompose_toffoli
\* the gates added for one TOFFOLI
ToffoliGates(c1, c2, t) ==
    <<Snot(t),
      Cnot(c2, t),
      Rot(tgate(TRUE), t),
      Cnot(c1, t),
      Rot(tgate(FALSE), t),
      Cnot(c2, t),
      Rot(tgate(TRUE), t),
      Cnot(c1, t),
      Rot(tgate(TRUE), c2),
      Rot(tgate(FALSE), t),
      Snot(t),
      Cnot(c1, c2),
      Rot(tgate(TRUE), c2),
      Cnot(c1, c2),
      Rot(tgate(FALSE), c1),
      Rot(pgate(FALSE), c2)>>

ToffoliBodyKeep(st, gate) ==
    IF gate.name = "TOFFOLI"
    THEN AddGate(AddNewGates(st, ToffoliGates(st.heap[gate.controls][1],
                                              st.heap[gate.controls][2],
                                              st.heap[gate.targets][1])),
                 gate)
    ELSE AddGate(st, gate)

ToffoliBody(st, gate) ==
    IF gate.name = "TOFFOLI"
    THEN AddNewGates(st, ToffoliGates(st.heap[gate.controls][1],
                                      st.heap[gate.controls][2],
                                      st.heap[gate.targets][1]))
    ELSE AddGate(st, gate)

\* for idx, gate in enumerate(qcircuit.gates): the body on gates lo .. hi in
\* list order (the range is halved to keep the evaluation shallow)
RECURSIVE ToffoliLoop(_, _, _, _)
ToffoliLoop(gates, lo, hi, st) ==
    IF lo > hi THEN st
    ELSE IF lo = hi THEN ToffoliBody(st, gates[lo])
    ELSE LET mid == (lo + hi) \div 2
         IN  ToffoliLoop(gates, mid + 1, hi, ToffoliLoop(gates, lo, mid, st))

\* returns [circuit, heap]
decompose_toffoli(qcircuit, heap) ==
    LET st == ToffoliLoop(qcircuit.gates, 1, Len(qcircuit.gates),
                          [gates |-> <<>>, heap |-> heap])
    IN  [circuit |-> [N |-> qcircuit.N, gates |-> st.gates], heap |-> st.heap]

\* ---------------------------------------------------------- decompose_SNOT
\* pgate(targets=target): a rotation holding the list `target' itself
RotOn(rot, target) == Gate(rot[1], target, None, rot[2], rot[3])

SnotBody(st, gate) ==
    IF gate.name = "SNOT"
    THEN LET target == gate.targets
         IN  [st EXCEPT !.gates = @ \o <<RotOn(pgate(FALSE), target),
                                         RotOn(vgate(FALSE), target),
                                         RotOn(pgate(FALSE), target)>>]
    ELSE AddGate(st, gate)

\* for idx, gate in enumerate(qcircuit.gates): the body on gates lo .. hi in
\* list order
RECURSIVE SnotLoop(_, _, _, _)
SnotLoop(gates, lo, hi, st) ==
    IF lo > hi THEN st
    ELSE IF lo = hi THEN SnotBody(st, gates[lo])
    ELSE LET mid == (lo + hi) \div 2
         IN  SnotLoop(gates, mid + 1, hi, SnotLoop(gates, lo, mid, st))

decompose_SNOT(qcircuit, heap) ==
    LET st == SnotLoop(qcircuit.gates, 1, Len(qcircuit.gates),
                       [gates |-> <<>>, heap |-> heap])
    IN  [circuit |-> [N |-> qcircuit.N, gates |-> st.gates], heap |-> st.heap]

\* ------------------------------------------------------ Icm.decompose_gates
\* the copy add_gate(gate.name, targets=gate.targets, ...) makes of a gate
CopyGate(gate) ==
    Gate(gate.name, gate.targets, gate.controls, gate.arg_value,
         gate.arg_label)

HalfPiLabelOnly(gate) ==
    Gate(gate.name, gate.targets, gate.controls, gate.arg_value, "pi/2")
HalfPi(gate) == Gate(gate.name, gate.targets, gate.controls, "pi/2", "pi/2")

RECURSIVE DecomposeLoop(_, _, _)
DecomposeLoop(gates, i, out) ==
    IF i > Len(gates) THEN [raised |-> "none", gates |-> out]
    ELSE LET gate == gates[i] IN
         IF gate.arg_label = "pi"
         THEN DecomposeLoop(gates, i + 1,
                            out \o <<HalfPi(gate), HalfPi(gate)>>)
         ELSE IF gate.name \in {"GLOBALPHASE", "TOFFOLI", "CNOT", "SNOT"}
         THEN DecomposeLoop(gates, i + 1, Append(out, CopyGate(gate)))
         ELSE IF <<gate.name, gate.arg_label>> \notin DOMAIN _icm_gate_dict
         THEN [raised |-> "ValueError", gates |-> <<>>]
         ELSE DecomposeLoop(gates, i + 1, Append(out, CopyGate(gate)))

decompose_gates_caught(qcircuit) ==
    LET r == DecomposeLoop(qcircuit.gates, 1, <<>>)
    IN  [raised |-> "none", circuit |-> [N |-> qcircuit.N, gates |-> r.gates]]

\* returns [raised, circuit]
decompose_gates(qcircuit) ==
    LET r == DecomposeLoop(qcircuit.gates, 1, <<>>)
    IN  [raised |-> r.raised,
         circuit |-> IF r.raised = "none"
                     THEN [N |-> qcircuit.N, gates |-> r.gates]
                     ELSE NoCircuit]

\* -------------------------------------------------------- Icm.ancilla_cost
ZeroCost == [P |-> 0, T |-> 0, V |-> 0, SNOT |-> 0, TOFFOLI |-> 0]

SnotCost == 3
ToffoliCost == 42

RECURSIVE CostLoop(_, _, _)
CostLoop(gates, i, cost) ==
    IF i > Len(gates) THEN [raised |-> "none", cost |-> cost]
    ELSE LET gate == gates[i] IN
         IF gate.name = "CNOT" THEN CostLoop(gates, i + 1, cost)
         ELSE IF gate.name = "SNOT"
         THEN CostLoop(gates, i + 1, [cost EXCEPT !.SNOT = @ + SnotCost])
         ELSE IF gate.name = "TOFFOLI"
         THEN CostLoop(gates, i + 1, [cost EXCEPT !.TOFFOLI = @ + ToffoliCost])
         ELSE IF <<gate.name, gate.arg_label>> \notin DOMAIN _icm_gate_dict
         THEN [raised |-> "ValueError", cost |-> ZeroCost]
         ELSE LET icm_gate == _icm_gate_dict[<<gate.name, gate.arg_label>>]
                  c1 == IF icm_gate \in {"P", "P_dagger"}
                        THEN [cost EXCEPT !.P = @ + 1] ELSE cost
                  c2 == IF icm_gate \in {"T", "T_dagger"}
                        THEN [c1 EXCEPT !.T = @ + 5] ELSE c1
                  c3 == IF icm_gate \in {"V", "V_dagger"}
                        THEN [c2 EXCEPT !.V = @ + 1] ELSE c2
              IN  CostLoop(gates, i + 1, c3)

\* the tally taken over the circuit as given, without decompose_gates
ancilla_cost_undecomposed(qcircuit) == CostLoop(qcircuit.gates, 1, ZeroCost)

\* returns [raised, cost]
ancilla_cost(qcircuit) ==
    LET d == decompose_gates(qcircuit)
    IN  IF d.raised # "none" THEN [raised |-> d.raised, cost |-> ZeroCost]
        ELSE CostLoop(d.circuit.gates, 1, ZeroCost)

SumCostRotations(cost) == cost.P + cost.T + cost.V
SumCost(cost) == cost.P + cost.T + cost.V + cost.SNOT + cost.TOFFOLI

\* -------------------------------------------------------------- Icm.to_icm
GadgetTags == {"ancilla", "measurement", "correction"}
ScanSkipTags == {"ancilla", "measurement", "correction", "input", "output"}

\* for i in range(N): add_gate(name, arg_label=arg_label, targets=[i])
Frame(name, arg_label, N) ==
    [i \in 1..N |-> Desc5(name, <<i - 1>>, <<>>, NoArg, arg_label)]

\* for gate in decomposed_circuit.gates: icm_circuit.add_gate(gate)
CopyGates(gates) == <<>> \o [i \in 1..Len(gates) |-> CopyGate(gates[i])]

\* everything to_icm does before the first scan; returns
\* [raised, cost, decomposed_N, circuit, heap]
ToIcmSetup(qcircuit, heap) ==
    LET d == decompose_gates(qcircuit)
        a == ancilla_cost(qcircuit)
    IN  IF d.raised # "none" \/ a.raised # "none"
        THEN [raised |-> "ValueError", cost |-> ZeroCost, decomposed_N |-> 0,
              circuit |-> NoCircuit, heap |-> heap]
        ELSE LET total_qubits == d.circuit.N + SumCost(a.cost)
                 dt == decompose_toffoli(d.circuit, heap)
                 ds == decompose_SNOT(dt.circuit, dt.heap)
                 s0 == [gates |-> <<>>, heap |-> ds.heap]
                 s1 == AddNewGates(s0, Frame("IN", "input", ds.circuit.N))
                 s2 == [s1 EXCEPT !.gates = @ \o CopyGates(ds.circuit.gates)]
                 s3 == AddNewGates(s2, Frame("OUT", "output", ds.circuit.N))
             IN  [raised |-> "none", cost |-> a.cost,
                  decomposed_N |-> ds.circuit.N,
                  circuit |-> [N |-> total_qubits, gates |-> s3.gates],
                  heap |-> s3.heap]

\* the three scans differ in the names they match, the shift and the gadget
ScanNamesPlain(kind) == {kind}
ScanNames(kind) == {kind, kind \o "_dagger"}
ScanShift(kind) == IF kind = "T" THEN 5 ELSE 1

\* The scan of `kind' passes over CNOTs and tagged gates; any other gate is
\* looked up in _icm_gate_dict, where a missing key stops the scan (KeyError)
\* and a name of the scan's kind starts the replacement.
ScanStops(gate, kind) ==
    /\ gate.name # "CNOT"
    /\ gate.arg_label \notin ScanSkipTags
    /\ \/ <<gate.name, gate.arg_label>> \notin DOMAIN _icm_gate_dict
       \/ _icm_gate_dict[<<gate.name, gate.arg_label>>] \in ScanNames(kind)

\* Position (1-based) of the first gate at or after i that the scan does not
\* pass over; 0 when the scan reaches the end of the list.
ScanFind(gates, i, kind) ==
    LET stops == {k \in i..Len(gates) : ScanStops(gates[k], kind)}
    IN  IF stops = {} THEN 0
        ELSE CHOOSE k \in stops : \A m \in stops : k <= m

\* gate.targets[0] += s / gate.controls[0] += s, in place
BumpTarget(heap, gate, s) == [heap EXCEPT ![gate.targets][1] = @ + s]
BumpControl(heap, gate, s) == [heap EXCEPT ![gate.controls][1] = @ + s]

\* body of the loop over the gates before the matched gate
ShiftBeforeBody(heap, gate, t, s) ==
    IF gate.arg_label \in GadgetTags THEN heap
    ELSE LET h1 == IF Target(heap, gate) > t
                   THEN BumpTarget(heap, gate, s) ELSE heap
         IN  IF HasControls(h1, gate) /\ Control(h1, gate) > t
             THEN BumpControl(h1, gate, s) ELSE h1

\* body of the loop over the gates after the gadget
ShiftAfterBody(heap, gate, t, s) ==
    LET h1 == IF Target(heap, gate) >= t
              THEN BumpTarget(heap, gate, s) ELSE heap
    IN  IF HasControls(h1, gate) /\ Control(h1, gate) >= t
        THEN BumpControl(h1, gate, s) ELSE h1

\* for gate in icm_circuit.gates[:idx]: the body on gates lo .. hi, one gate
\* after the other in list order.  The range is halved, and the first half
\* is compared with the heap so that it is evaluated before the second half
\* starts: this keeps the evaluation shallow and leaves the order of the
\* iterations that of the loop.
RECURSIVE ShiftBefore(_, _, _, _, _, _)
ShiftBefore(heap, gates, lo, hi, t, s) ==
    IF lo > hi THEN heap
    ELSE IF lo = hi THEN ShiftBeforeBody(heap, gates[lo], t, s)
    ELSE LET mid == (lo + hi) \div 2
             h == ShiftBefore(heap, gates, lo, mid, t, s)
         IN  IF h = heap THEN ShiftBefore(heap, gates, mid + 1, hi, t, s)
             ELSE ShiftBefore(h, gates, mid + 1, hi, t, s)

\* for gate in icm_circuit.gates[idx+k:]: the body on gates lo .. hi
RECURSIVE ShiftAfter(_, _, _, _, _, _)
ShiftAfter(heap, gates, lo, hi, t, s) ==
    IF lo > hi THEN heap
    ELSE IF lo = hi THEN ShiftAfterBody(heap, gates[lo], t, s)
    ELSE LET mid == (lo + hi) \div 2
             h == ShiftAfter(heap, gates, lo, mid, t, s)
         IN  IF h = heap THEN ShiftAfter(heap, gates, mid + 1, hi, t, s)
             ELSE ShiftAfter(h, gates, mid + 1, hi, t, s)

\* the gates that take the place of a rotation on qubit t
Tag(name, t, arg_label) == Desc5(name, <<t>>, <<>>, NoArg, arg_label)
Correction(name, c, t) == Desc5(name, <<t>>, <<c>>, NoArg, "correction")

PGadget(t) ==
    <<Tag("Y", t + 1, "ancilla"),
      Cnot(t + 1, t),
      Tag("z", t, "measurement"),
      Correction("xz", t, t + 1)>>

\* the V gadget with its CNOT turned round
VGadgetTurned(t) ==
    <<Tag("y", t + 1, "ancilla"),
      Cnot(t + 1, t),
      Tag("x", t, "measurement"),
      Correction("x/z", t, t + 1)>>

VGadget(t) ==
    <<Tag("y", t + 1, "ancilla"),
      Cnot(t, t + 1),
      Tag("x", t, "measurement"),
      Correction("x/z", t, t + 1)>>

TGadget(t) ==
    <<Tag("a", t + 1, "ancilla"),
      Tag("0", t + 2, "ancilla"),
      Tag("y", t + 3, "ancilla"),
      Tag("+", t + 4, "ancilla"),
      Tag("0", t + 5, "ancilla"),
      Cnot(t + 1, t),
      Cnot(t + 1, t + 2),
      Cnot(t + 3, t + 1),
      Cnot(t + 4, t + 2),
      Cnot(t + 3, t + 5),
      Cnot(t + 4, t + 5),
      Tag("z", t, "measurement"),
      Correction("z/x", t, t + 1),
      Correction("x/z", t + 1, t + 2),
      Correction("x/z", t + 2, t + 3),
      Correction("z/x", t + 3, t + 4)>>

Gadget(kind, t) ==
    IF kind = "P" THEN PGadget(t)
    ELSE IF kind = "V" THEN VGadget(t)
    ELSE TGadget(t)

\* The body of one scan for the matched gate at position j (1-based):
\* shift the gates before it, put the gadget in its place, shift the gates
\* after the gadget.  Returns [gates, heap].
ApplyGadget(kind, gates, heap, j) ==
    LET t == Target(heap, gates[j])
        s == ScanShift(kind)
        h1 == ShiftBefore(heap, gates, 1, j - 1, t, s)
        g == NewGates(h1, Gadget(kind, t))
        new == SubSeq(gates, 1, j - 1) \o g.gates
                   \o SubSeq(gates, j + 1, Len(gates))
        h2 == ShiftAfter(g.heap, new, j + Len(g.gates), Len(new), t, s)
    IN  [gates |-> new, heap |-> h2]

\* ------------------------------------------------------------ icm_graph.py
\* A node key is the tuple (gate_count, bit, role); the bit of a rough node is
\* the string str(control_bit) + str(target_bit), kept as its digits.  The
\* arg_label of a gate that is not a CNOT sits in the rows of _get_bit_blocks
\* as a marker, which no node key equals.
RECURSIVE Str(_)
Str(n) == IF n < 10 THEN <<n>> ELSE Str(n \div 10) \o <<n % 10>>

Marker(arg_label) == <<-1, <<>>, arg_label>>
Touch(gate_count, bit, role) == <<gate_count, <<bit>>, role>>
Rough(gate_count, control_bit, target_bit) ==
    <<gate_count, Str(control_bit) \o Str(target_bit), "rough">>
Role(key) == key[3]

\* the pin attribute: None, or a list of pin names
NoPin == [unset |-> TRUE, pins |-> <<>>]
PinList(pins) == [unset |-> FALSE, pins |-> pins]

\* what the graph functions read of a circuit: per gate its name,
\* targets[0], controls[0] and arg_label
NoBit == -1
Rep(circuit, heap) ==
    [N |-> circuit.N,
     gates |-> [i \in 1..Len(circuit.gates) |->
                   LET gate == circuit.gates[i] IN
                   [name |-> gate.name,
                    target |-> IF gate.targets = None THEN NoBit
                               ELSE Target(heap, gate),
                    control |-> IF HasControls(heap, gate)
                                THEN Control(heap, gate) ELSE NoBit,
                    arg_label |-> gate.arg_label]]]
NoRep == [N |-> 0, gates |-> <<>>]

\* cmat[bit] += items
AddToRow(cmat, bit, items) == [cmat EXCEPT ![bit + 1] = @ \o items]

\* target_bit before the first gate that is not a CNOT has bound it
Unbound == -2

\* st = [raised, cmat, gate_count, target_bit]
RECURSIVE BitBlocksLoop(_, _, _)
BitBlocksLoop(icm_rep, i, st) ==
    IF i > Len(icm_rep.gates) THEN st
    ELSE LET gate == icm_rep.gates[i] IN
         IF gate.name # "CNOT"
         THEN IF gate.target >= icm_rep.N
              THEN [st EXCEPT !.raised = "IndexError"]
              ELSE BitBlocksLoop(icm_rep, i + 1,
                       [st EXCEPT !.target_bit = gate.target,
                                  !.cmat = AddToRow(@, gate.target,
                                               <<Marker(gate.arg_label)>>)])
         ELSE IF gate.control >= icm_rep.N \/ gate.target >= icm_rep.N
              THEN [st EXCEPT !.raised = "IndexError"]
              ELSE IF st.target_bit = Unbound
              THEN [st EXCEPT !.raised = "UnboundLocalError"]
              ELSE LET c1 == AddToRow(st.cmat, gate.control,
                                 <<Touch(st.gate_count, gate.control, "cleft"),
                                   Touch(st.gate_count, gate.control, "cright")>>)
                       c2 == AddToRow(c1, gate.target,
                                 <<Touch(st.gate_count, st.target_bit, "target")>>)
                   IN  BitBlocksLoop(icm_rep, i + 1,
                           [st EXCEPT !.cmat = c2, !.gate_count = @ + 1])

\* returns [raised, cmat]
_get_bit_blocks(icm_rep) ==
    LET st == BitBlocksLoop(icm_rep, 1,
                  [raised |-> "none", cmat |-> [b \in 1..icm_rep.N |-> <<>>],
                   gate_count |-> 0, target_bit |-> Unbound])
    IN  [raised |-> st.raised, cmat |-> st.cmat]

\* row.index(key), counted from 1; 0 when list.index raises ValueError
Index(row, key) ==
    LET at == {k \in 1..Len(row) : row[k] = key}
    IN  IF at = {} THEN 0 ELSE CHOOSE k \in at : \A m \in at : k <= m

\* row[row.index(key) + d]: a negative subscript counts from the end of the
\* list, one past the end raises IndexError
Beside(row, key, d) ==
    LET k == Index(row, key)
        p == k - 1 + d
    IN  IF k = 0 THEN [raised |-> "ValueError", value |-> Marker("")]
        ELSE IF p >= Len(row) THEN [raised |-> "IndexError", value |-> Marker("")]
        ELSE IF p < 0 THEN [raised |-> "none", value |-> row[Len(row) + p + 1]]
        ELSE [raised |-> "none", value |-> row[p + 1]]

PinTest(node, bit, d, arg_label, pin) ==
    [node |-> node, bit |-> bit, d |-> d, arg_label |-> arg_label, pin |-> pin]

\* the ten tests inside the try block, in the order they are written
PinTests(control_bit, target_bit) ==
    <<PinTest("cleft", control_bit, -1, "input", "cap"),
      PinTest("cleft", control_bit, -1, "ancilla", "injector"),
      PinTest("cright", control_bit, 1, "output", "cap"),
      PinTest("cright", control_bit, 1, "measurement", "cap"),
      PinTest("cright", control_bit, 1, "correction", "cap"),
      PinTest("target", target_bit, -1, "input", "cap"),
      PinTest("target", target_bit, -1, "ancilla", "injector"),
      PinTest("target", target_bit, 1, "output", "cap"),
      PinTest("target", target_bit, 1, "measurement", "cap"),
      PinTest("target", target_bit, 1, "correction", "cap")>>

\* the try block for the CNOT numbered gate_count: a ValueError ends the
\* block with the pins set so far, any other exception leaves the function.
\* st = [raised, pin], pin the three pin_* variables
RECURSIVE PinLoop(_, _, _, _, _)
PinLoop(bit_blocks, gate_count, tests, i, st) ==
    IF i > Len(tests) THEN st
    ELSE LET test == tests[i]
             r == Beside(bit_blocks[test.bit + 1],
                         Touch(gate_count, test.bit, test.node), test.d)
         IN  IF r.raised = "ValueError" THEN st
             ELSE IF r.raised # "none" THEN [st EXCEPT !.raised = r.raised]
             ELSE IF r.value = Marker(test.arg_label)
             THEN PinLoop(bit_blocks, gate_count, tests, i + 1,
                      [st EXCEPT !.pin[test.node] = PinList(<<test.pin>>)])
             ELSE PinLoop(bit_blocks, gate_count, tests, i + 1, st)

NoPins == [cleft |-> NoPin, cright |-> NoPin, target |-> NoPin]

\* A graph: its nodes in the order they were added, the pin attribute of
\* each node, and for each node its neighbours in the order they were added.
EmptyGraph ==
    [nodes |-> <<>>, pin |-> [n \in {} |-> NoPin], adj |-> [n \in {} |-> <<>>]]

NodeSet(g) == {g.nodes[k] : k \in 1..Len(g.nodes)}

\* the four nodes of the CNOT numbered gate_count, in the order of add_node
StarNodes(gate_count, gate) ==
    <<Touch(gate_count, gate.control, "cleft"),
      Touch(gate_count, gate.control, "cright"),
      Touch(gate_count, gate.target, "target"),
      Rough(gate_count, gate.control, gate.target)>>

IsCnotGate(gate) == gate.name = "CNOT"

\* returns [raised, g]; nx.compose_all(graphs) puts the stars of the CNOTs
\* one after the other and raises for an empty list
construct_icm_graph(qcircuit) ==
    LET b == _get_bit_blocks(qcircuit)
        cnots == SelectSeq(qcircuit.gates, IsCnotGate)
        k == Len(cnots)
        pins == [i \in 1..k |->
                    PinLoop(b.cmat, i - 1,
                            PinTests(cnots[i].control, cnots[i].target), 1,
                            [raised |-> "none", pin |-> NoPins])]
        failed == {i \in 1..k : pins[i].raised # "none"}
        star == [i \in 1..k |-> StarNodes(i - 1, cnots[i])]
        nodes == [j \in 1..(4 * k) |->
                     star[((j - 1) \div 4) + 1][((j - 1) % 4) + 1]]
        keys == {nodes[j] : j \in 1..(4 * k)}
        gate_of(n) == n[1] + 1
    IN  IF b.raised # "none" THEN [raised |-> b.raised, g |-> EmptyGraph]
        ELSE IF failed # {}
        THEN [raised |-> pins[CHOOSE i \in failed : \A m \in failed : i <= m].raised,
              g |-> EmptyGraph]
        ELSE IF k = 0 THEN [raised |-> "StopIteration", g |-> EmptyGraph]
        ELSE [raised |-> "none",
              g |-> [nodes |-> nodes,
                     pin |-> [n \in keys |->
                                 IF Role(n) = "rough" THEN NoPin
                                 ELSE pins[gate_of(n)].pin[Role(n)]],
                     adj |-> [n \in keys |->
                                 IF Role(n) = "rough"
                                 THEN SubSeq(star[gate_of(n)], 1, 3)
                                 ELSE <<star[gate_of(n)][4]>>]]]

\* ------------------------------------------------- the graph library calls
\* g.neighbors(node)
Neighbors(g, node) == g.adj[node]

Without(seq, n) == SelectSeq(seq, LAMBDA x : x # n)

\* g.remove_node(n): the node, its attributes and its edges
RemoveNode(g, n) ==
    LET keys == NodeSet(g) \ {n} IN
    [nodes |-> Without(g.nodes, n),
     pin |-> [m \in keys |-> g.pin[m]],
     adj |-> [m \in keys |-> Without(g.adj[m], n)]]

Has(seq, x) == \E k \in 1..Len(seq) : seq[k] = x

\* g.add_edge(u, w) between two nodes of the graph
AddEdge(g, u, w) ==
    IF Has(g.adj[u], w) THEN g
    ELSE IF u = w THEN [g EXCEPT !.adj[u] = Append(@, u)]
    ELSE [g EXCEPT !.adj[u] = Append(@, w), !.adj[w] = Append(@, u)]

RECURSIVE AddEdges(_, _, _, _)
AddEdges(g, u, ws, i) ==
    IF i > Len(ws) THEN g
    ELSE AddEdges(AddEdge(g, u, ws[i]), u, ws, i + 1)

\* nx.contracted_nodes(g, u, v, self_loops=True): the edge between u and v
\* is kept as a loop on u
ContractedNodesWithLoops(g, u, v) ==
    LET new_edges == [k \in 1..Len(g.adj[v]) |->
                         IF g.adj[v][k] = v THEN u ELSE g.adj[v][k]]
    IN  AddEdges(RemoveNode(g, v), u, new_edges, 1)

\* nx.contracted_nodes(g, u, v, self_loops=False): a copy of g in which the
\* edges of v end at u and v is gone; the edge between u and v is dropped
\* (v has no edge to itself: no function of the module makes one)
ContractedNodes(g, u, v) ==
    LET new_edges == SelectSeq(g.adj[v], LAMBDA w : w # u /\ w # v)
    IN  AddEdges(RemoveNode(g, v), u, new_edges, 1)

\* nx.set_node_attributes(g, "pin", {n: pin})
SetPin(g, n, pin) == [g EXCEPT !.pin[n] = pin]

\* the list temp_pins collects from the two pin attributes
JoinPins(pin1, pin2) == pin1.pins \o pin2.pins

\* -------------------------------------------------------------- _get_mergers
\* st = [raised, cmat, idx]
RECURSIVE MergerRows(_, _, _)
MergerRows(circuit, i, st) ==
    IF i > Len(circuit.gates) THEN st
    ELSE LET gate == circuit.gates[i] IN
         IF gate.name # "CNOT" THEN MergerRows(circuit, i + 1, st)
         ELSE IF gate.control >= circuit.N \/ gate.target >= circuit.N
         THEN [st EXCEPT !.raised = "IndexError"]
         ELSE LET c1 == AddToRow(st.cmat, gate.control,
                            <<Touch(st.idx, gate.control, "cleft"),
                              Touch(st.idx, gate.control, "cright")>>)
                  c2 == AddToRow(c1, gate.target,
                            <<Touch(st.idx, gate.target, "target")>>)
              IN  MergerRows(circuit, i + 1,
                      [st EXCEPT !.cmat = c2, !.idx = @ + 1])

\* the touches after column_id up to the next cright, or to the end of the row
Run(row, column_id) ==
    LET crights == {k \in (column_id + 1)..Len(row) : Role(row[k]) = "cright"}
        stop == IF crights = {} THEN Len(row) + 1
                ELSE CHOOSE k \in crights : \A m \in crights : k <= m
    IN  SubSeq(row, column_id + 1, stop - 1)

\* the (key, item) pairs of t_mergers a row gives, in the order of the dict
RECURSIVE TMergers(_, _)
TMergers(row, column_id) ==
    IF column_id > Len(row) THEN <<>>
    ELSE IF Role(row[column_id]) = "target"
    THEN LET temp_ == Run(row, column_id)
         IN  [k \in 1..Len(temp_) |-> <<row[column_id], temp_[k]>>]
                 \o TMergers(row, column_id + 1)
    ELSE TMergers(row, column_id + 1)

\* the (key, item) pairs of c_mergers a row gives
RECURSIVE CMergers(_, _)
CMergers(row, column_id) ==
    IF column_id > Len(row) THEN <<>>
    ELSE IF Role(row[column_id]) = "cright" /\ column_id + 1 <= Len(row)
    THEN <<<<row[column_id], row[column_id + 1]>>>>
             \o CMergers(row, column_id + 1)
    ELSE CMergers(row, column_id + 1)

RECURSIVE AllRows(_, _, _)
AllRows(cmat, row_id, kind) ==
    IF row_id > Len(cmat) THEN <<>>
    ELSE (IF kind = "t" THEN TMergers(cmat[row_id], 1)
          ELSE CMergers(cmat[row_id], 1)) \o AllRows(cmat, row_id + 1, kind)

\* returns [raised, t_mergers, c_mergers], each dict as its (key, item)
\* pairs in the order the loops of combine_graph take them
_get_mergers(circuit) ==
    LET st == MergerRows(circuit, 1,
                  [raised |-> "none", cmat |-> [b \in 1..circuit.N |-> <<>>],
                   idx |-> 0])
    IN  IF st.raised # "none"
        THEN [raised |-> st.raised, t_mergers |-> <<>>, c_mergers |-> <<>>]
        ELSE [raised |-> "none", t_mergers |-> AllRows(st.cmat, 1, "t"),
              c_mergers |-> AllRows(st.cmat, 1, "c")]

\* ------------------------------------------------------------- combine_graph
\* one merger: g.node[key] and g.node[item] raise KeyError for a node that
\* is no longer in the graph
RECURSIVE CombineLoop(_, _, _)
CombineLoop(mergers, i, g) ==
    IF i > Len(mergers) THEN [raised |-> "none", g |-> g]
    ELSE LET key == mergers[i][1]
             item == mergers[i][2]
         IN  IF key \notin NodeSet(g) \/ item \notin NodeSet(g)
             THEN [raised |-> "KeyError", g |-> g]
             ELSE LET temp_pins == JoinPins(g.pin[key], g.pin[item])
                      pin == IF Len(temp_pins) = 0 THEN NoPin
                             ELSE PinList(temp_pins)
                  IN  CombineLoop(mergers, i + 1,
                          SetPin(ContractedNodes(g, key, item), key, pin))

\* returns [raised, g]; g is the graph the caller holds afterwards
combine_graph(g, circuit) ==
    LET m == _get_mergers(circuit)
        r == CombineLoop(m.t_mergers \o m.c_mergers, 1, g)
    IN  IF m.raised # "none" THEN [raised |-> m.raised, g |-> g]
        ELSE IF r.raised # "none" THEN [raised |-> r.raised, g |-> g]
        ELSE r

\* ------------------------------------------------------------------ teleport
\* the loop runs over the nodes of the graph passed in; st = [g, tcount]
RECURSIVE TeleportLoop(_, _, _, _)
TeleportLoop(nodes, i, count, st) ==
    IF i > Len(nodes) THEN st
    ELSE LET node == nodes[i]
             neighbors == Neighbors(st.g, node)
         IN  IF Len(neighbors) = 1 /\ st.tcount < count
             THEN LET temp_pin == JoinPins(st.g.pin[node],
                                           st.g.pin[neighbors[1]])
                  IN  TeleportLoop(nodes, i + 1, count,
                          [g |-> SetPin(ContractedNodes(st.g, neighbors[1], node),
                                        neighbors[1], PinList(temp_pin)),
                           tcount |-> st.tcount + 1])
             ELSE TeleportLoop(nodes, i + 1, count, st)

teleport(g, count) == TeleportLoop(g.nodes, 1, count, [g |-> g, tcount |-> 0]).g

\* ------------------------------------------------------------ loop reductions
PinFree(g, n) == g.pin[n].unset

\* the nodes without a pin that have a neighbour, however many
RemoveablesAnyDegree(g, degree) ==
    SelectSeq(g.nodes, LAMBDA n : PinFree(g, n) /\ Len(Neighbors(g, n)) > 0)
\* removeables: the nodes without a pin that have this many neighbours
Removeables(g, degree) ==
    SelectSeq(g.nodes, LAMBDA n : PinFree(g, n) /\ Len(Neighbors(g, n)) = degree)

\* temp_optional: the neighbours of a node that have no pin
Optional(g, node) == SelectSeq(Neighbors(g, node), LAMBDA n : PinFree(g, n))

\* returns [raised, g]: remove_node works on the caller's graph, so what was
\* removed before an exception stays removed
three_loop_reduction(g, opt1, opt2) ==
    LET removeables == Removeables(g, 3) IN
    IF Len(removeables) = 0 THEN [raised |-> "none", g |-> g]
    ELSE IF opt1 >= Len(removeables) THEN [raised |-> "IndexError", g |-> g]
    ELSE LET node == removeables[opt1 + 1]
             g1 == RemoveNode(g, node)
             optional == Optional(g, node)
         IN  IF Len(optional) = 0 THEN [raised |-> "KeyError", g |-> g1]
             ELSE IF opt2 >= Len(optional)
             THEN [raised |-> "IndexError", g |-> g1]
             ELSE [raised |-> "none", g |-> RemoveNode(g1, optional[opt2 + 1])]

\* the list optional of two_loop_reduction: the pin-free neighbours of every
\* removeable node, one after the other
RECURSIVE OptionalOfAll(_, _, _)
OptionalOfAll(g, removeables, i) ==
    IF i > Len(removeables) THEN <<>>
    ELSE Optional(g, removeables[i]) \o OptionalOfAll(g, removeables, i + 1)

two_loop_reduction(g, opt1, opt2) ==
    LET removeables == Removeables(g, 2)
        optional == OptionalOfAll(g, removeables, 1)
    IN  IF Len(removeables) = 0 THEN [raised |-> "none", g |-> g]
        ELSE IF opt1 >= Len(removeables) THEN [raised |-> "IndexError", g |-> g]
        ELSE LET g1 == RemoveNode(g, removeables[opt1 + 1]) IN
             IF Len(optional) # 0 /\ opt2 < Len(optional)
                    /\ optional[opt2 + 1] \in NodeSet(g1)
             THEN [raised |-> "none", g |-> RemoveNode(g1, optional[opt2 + 1])]
             ELSE [raised |-> "none", g |-> g1]

\* ------------------------------------------------------------ input circuits
\* a gate of the input: the angle value is the one its label names
Desc(name, t, c, label) == Desc5(name, t, c, label, label)

RotLabels == {"pi", "pi/2", "-pi/2", "pi/4", "-pi/4", "pi/10"}
PhaseLabels == {"pi", "pi/2"}

Rotations(N) ==
    {Desc(n, <<q>>, <<>>, l) : n \in {"RX", "RZ"}, q \in 0..(N - 1),
                               l \in RotLabels}
Cnots(N) ==
    {Desc("CNOT", <<q[1]>>, <<q[2]>>, NoArg) :
         q \in {p \in (0..(N - 1)) \X (0..(N - 1)) : p[1] # p[2]}}
Snots(N) == {Desc("SNOT", <<q>>, <<>>, NoArg) : q \in 0..(N - 1)}
Toffolis(N) ==
    {Desc("TOFFOLI", <<q[1]>>, <<q[2], q[3]>>, NoArg) :
         q \in {p \in (0..(N - 1)) \X (0..(N - 1)) \X (0..(N - 1)) :
                    p[1] # p[2] /\ p[1] # p[3] /\ p[2] # p[3]}}
Phases == {Desc("GLOBALPHASE", <<>>, <<>>, l) : l \in PhaseLabels}

\* each gate written with list literals of its own
Build(descs) == NewGates(<<>>, descs)

Alphabet(N) == Rotations(N) \cup Cnots(N) \cup Snots(N) \cup Toffolis(N)
                   \cup Phases

Circuits(N, maxlen) == UNION {[1..n -> Alphabet(N)] : n \in 0..maxlen}

FunctionModes == {"decompose_gates", "decompose_toffoli", "decompose_SNOT",
                  "ancilla_cost"}

\* the circuits of test_icm.py, each with the function its test calls
TestIcmP ==
    [mode |-> "to_icm", N |-> 2,
     descs |-> <<Desc("CNOT", <<1>>, <<0>>, NoArg),
                 Desc("CNOT", <<0>>, <<1>>, NoArg),
                 Desc("RZ", <<0>>, <<>>, "pi/2"),
                 Desc("CNOT", <<0>>, <<1>>, NoArg)>>]
TestIcmV ==
    [mode |-> "to_icm", N |-> 2,
     descs |-> <<Desc("CNOT", <<1>>, <<0>>, NoArg),
                 Desc("CNOT", <<0>>, <<1>>, NoArg),
                 Desc("RX", <<0>>, <<>>, "pi/2"),
                 Desc("CNOT", <<0>>, <<1>>, NoArg)>>]
TestIcmT ==
    [mode |-> "to_icm", N |-> 2,
     descs |-> <<Desc("CNOT", <<1>>, <<0>>, NoArg),
                 Desc("CNOT", <<0>>, <<1>>, NoArg),
                 Desc("RZ", <<0>>, <<>>, "pi/4"),
                 Desc("CNOT", <<0>>, <<1>>, NoArg),
                 Desc("CNOT", <<1>>, <<0>>, NoArg)>>]
TestDecomposition ==
    [mode |-> "decompose_gates", N |-> 5,
     descs |-> <<Desc("TOFFOLI", <<2>>, <<0, 1>>, NoArg),
                 Desc("SNOT", <<3>>, <<>>, NoArg),
                 Desc("RX", <<5>>, <<>>, "pi")>>]
TestAncillaCost ==
    [mode |-> "ancilla_cost", N |-> 5,
     descs |-> <<Desc("TOFFOLI", <<2>>, <<0, 1>>, NoArg),
                 Desc("SNOT", <<3>>, <<>>, NoArg),
                 Desc("RX", <<5>>, <<>>, "pi"),
                 Desc("TOFFOLI", <<0>>, <<1, 2>>, NoArg),
                 Desc("SNOT", <<2>>, <<>>, NoArg)>>]
TestToffoliDecomposition ==
    [mode |-> "decompose_toffoli", N |-> 5,
     descs |-> <<Desc("RX", <<4>>, <<>>, "pi"),
                 Desc("TOFFOLI", <<2>>, <<0, 1>>, NoArg),
                 Desc("RX", <<4>>, <<>>, "pi"),
                 Desc("TOFFOLI", <<4>>, <<2, 3>>, NoArg),
                 Desc("RX", <<4>>, <<>>, "pi"),
                 Desc("SNOT", <<4>>, <<>>, NoArg),
                 Desc("RX", <<4>>, <<>>, "pi/2"),
                 Desc("RZ", <<4>>, <<>>, "pi/2")>>]
TestSnotDecomposition ==
    [mode |-> "decompose_SNOT", N |-> 5,
     descs |-> <<Desc("RX", <<4>>, <<>>, "pi"),
                 Desc("SNOT", <<0>>, <<>>, NoArg),
                 Desc("RX", <<4>>, <<>>, "pi"),
                 Desc("SNOT", <<1>>, <<>>, NoArg),
                 Desc("RZ", <<4>>, <<>>, "pi/2")>>]
\* test_non_icm_gates, from its first gate already in the basis onwards
TestNonIcmGates ==
    [mode |-> "decompose_gates", N |-> 2,
     descs |-> <<Desc("SNOT", <<1>>, <<>>, NoArg),
                 Desc("RZ", <<1>>, <<>>, "pi/2"),
                 Desc("RX", <<0>>, <<>>, "pi/10")>>]
\* a single TOFFOLI on five qubits
SingleToffoli ==
    [mode |-> "decompose_toffoli", N |-> 5,
     descs |-> <<Desc("TOFFOLI", <<2>>, <<0, 1>>, NoArg)>>]

TestCircuits ==
    {TestIcmP, TestIcmV, TestIcmT, TestDecomposition, TestAncillaCost,
     TestToffoliDecomposition, TestSnotDecomposition, TestNonIcmGates,
     SingleToffoli}

Inputs ==
    TestCircuits \cup
    {[mode |-> m, N |-> NumQubits, descs |-> d] :
         m \in FunctionModes, d \in Circuits(NumQubits, MaxGates)} \cup
    {[mode |-> "to_icm", N |-> IcmQubits, descs |-> d] :
         d \in Circuits(IcmQubits, MaxIcmGates)} \cup
    {[mode |-> "to_icm", N |-> NumQubits, descs |-> d] :
         d \in Circuits(NumQubits, MaxWideGates)}

\* the circuits the graph is built from: mode "graph" hands the circuit to
\* construct_icm_graph as it is, mode "to_icm" hands it what to_icm returns
GadgetLabels == {"pi/2", "pi/4"}
GadgetAlphabet(N) ==
    {Desc(n, <<q>>, <<>>, l) : n \in {"RX", "RZ"}, q \in 0..(N - 1),
                               l \in GadgetLabels}
        \cup Cnots(N) \cup Snots(N)
CnotCircuits(N, maxlen) == UNION {[1..n -> Cnots(N)] : n \in 0..maxlen}
GadgetCircuits(N, maxlen) ==
    UNION {[1..n -> GadgetAlphabet(N)] : n \in 0..maxlen}

GraphInputs ==
    {TestIcmP, TestIcmV, TestIcmT} \cup
    {[mode |-> m, N |-> GraphQubits, descs |-> d] :
         m \in {"graph", "to_icm"}, d \in CnotCircuits(GraphQubits, MaxCnots)}
    \cup
    {[mode |-> "to_icm", N |-> IcmQubits, descs |-> d] :
         d \in GadgetCircuits(IcmQubits, MaxIcmGates)}

\* ------------------------------------------------------------ state machine
VARIABLES
    mode,            \* the function the caller invokes
    input,           \* the circuit as the caller wrote it
    qcircuit,        \* the circuit passed in (Icm.qcircuit for the methods)
    heap,            \* the targets / controls lists
    pc,              \* "call", the scan in progress, "returned" or "raised"
    raised,          \* the exception that left the function, or "none"
    ret,             \* the circuit returned
    cost,            \* the dict ancilla_cost returned
    decomposed_N,    \* decomposed_circuit.N inside to_icm
    icm_circuit,     \* icm_circuit inside to_icm
    idx,             \* gates of icm_circuit the running scan has passed
    icm_rep,         \* the circuit the graph was built from
    graph,           \* the graph the caller holds
    before,          \* the graph the caller held before the last call
    gcall,           \* the last call of a graph function and how it ended
    ncalls           \* calls made since construct_icm_graph

gvars == <<icm_rep, graph, before, gcall, ncalls>>

vars == <<mode, input, qcircuit, heap, pc, raised, ret, cost, decomposed_N,
          icm_circuit, idx, icm_rep, graph, before, gcall, ncalls>>

GraphCall(op, opt1, opt2, count, exc) ==
    [op |-> op, opt1 |-> opt1, opt2 |-> opt2, count |-> count, raised |-> exc]
NoCall == GraphCall("none", 0, 0, 0, "none")

Start(inp) ==
        LET b == Build(inp.descs) IN
        /\ mode = inp.mode
        /\ input = inp
        /\ qcircuit = [N |-> inp.N, gates |-> b.gates]
        /\ heap = b.heap
        /\ pc = "call"
        /\ raised = "none"
        /\ ret = NoCircuit
        /\ cost = ZeroCost
        /\ decomposed_N = 0
        /\ icm_circuit = NoCircuit
        /\ idx = 0
        /\ icm_rep = NoRep
        /\ graph = EmptyGraph
        /\ before = EmptyGraph
        /\ gcall = NoCall
        /\ ncalls = 0

Init == \E inp \in Inputs : Start(inp)

Raise(e) ==
    /\ pc' = "raised"
    /\ raised' = e

CallDecomposeGates ==
    /\ mode = "decompose_gates" /\ pc = "call"
    /\ LET r == decompose_gates(qcircuit) IN
       IF r.raised # "none"
       THEN Raise(r.raised) /\ UNCHANGED ret
       ELSE pc' = "returned" /\ ret' = r.circuit /\ UNCHANGED raised
    /\ UNCHANGED <<mode, input, qcircuit, heap, cost, decomposed_N,
                   icm_circuit, idx>>
    /\ UNCHANGED gvars

CallDecomposeToffoli ==
    /\ mode = "decompose_toffoli" /\ pc = "call"
    /\ LET r == decompose_toffoli(qcircuit, heap) IN
       /\ ret' = r.circuit
       /\ heap' = r.heap
    /\ pc' = "returned"
    /\ UNCHANGED <<mode, input, qcircuit, raised, cost, decomposed_N,
                   icm_circuit, idx>>
    /\ UNCHANGED gvars

CallDecomposeSNOT ==
    /\ mode = "decompose_SNOT" /\ pc = "call"
    /\ LET r == decompose_SNOT(qcircuit, heap) IN
       /\ ret' = r.circuit
       /\ heap' = r.heap
    /\ pc' = "returned"
    /\ UNCHANGED <<mode, input, qcircuit, raised, cost, decomposed_N,
                   icm_circuit, idx>>
    /\ UNCHANGED gvars

CallAncillaCost ==
    /\ mode = "ancilla_cost" /\ pc = "call"
    /\ LET r == ancilla_cost(qcircuit) IN
       IF r.raised # "none"
       THEN Raise(r.raised) /\ UNCHANGED cost
       ELSE pc' = "returned" /\ cost' = r.cost /\ UNCHANGED raised
    /\ UNCHANGED <<mode, input, qcircuit, heap, ret, decomposed_N,
                   icm_circuit, idx>>
    /\ UNCHANGED gvars

\* to_icm up to the first scan
ToIcmBegin ==
    /\ mode = "to_icm" /\ pc = "call"
    /\ LET r == ToIcmSetup(qcircuit, heap) IN
       IF r.raised # "none"
       THEN /\ Raise(r.raised)
            /\ UNCHANGED <<heap, cost, decomposed_N, icm_circuit>>
       ELSE /\ pc' = "P"
            /\ cost' = r.cost
            /\ decomposed_N' = r.decomposed_N
            /\ icm_circuit' = r.circuit
            /\ heap' = r.heap
            /\ UNCHANGED raised
    /\ idx' = 0
    /\ UNCHANGED <<mode, input, qcircuit, ret>>
    /\ UNCHANGED gvars

\* the running scan goes on to its next matching gate and replaces it
ScanGadget(kind) ==
    /\ pc = kind
    /\ LET j == ScanFind(icm_circuit.gates, idx + 1, kind) IN
       /\ j # 0
       /\ IF <<icm_circuit.gates[j].name, icm_circuit.gates[j].arg_label>>
                 \notin DOMAIN _icm_gate_dict
          THEN /\ Raise("KeyError")
               /\ idx' = j
               /\ UNCHANGED <<icm_circuit, heap>>
          ELSE LET r == ApplyGadget(kind, icm_circuit.gates, heap, j) IN
               /\ icm_circuit' = [icm_circuit EXCEPT !.gates = r.gates]
               /\ heap' = r.heap
               /\ idx' = j
               /\ UNCHANGED <<pc, raised>>
    /\ UNCHANGED <<mode, input, qcircuit, ret, cost, decomposed_N>>
    /\ UNCHANGED gvars

\* the running scan reaches the end of the list
ScanEnd(kind, next) ==
    /\ pc = kind
    /\ ScanFind(icm_circuit.gates, idx + 1, kind) = 0
    /\ pc' = next
    /\ idx' = 0
    /\ ret' = IF next = "returned" THEN icm_circuit ELSE ret
    /\ UNCHANGED <<mode, input, qcircuit, heap, raised, cost, decomposed_N,
                   icm_circuit>>
    /\ UNCHANGED gvars

PScan == ScanGadget("P")
PScanEnd == ScanEnd("P", "V")
VScan == ScanGadget("V")
VScanEnd == ScanEnd("V", "T")
TScan == ScanGadget("T")
TScanEnd == ScanEnd("T", "returned")

Next ==
    \/ CallDecomposeGates
    \/ CallDecomposeToffoli
    \/ CallDecomposeSNOT
    \/ CallAncillaCost
    \/ ToIcmBegin
    \/ PScan
    \/ PScanEnd
    \/ VScan
    \/ VScanEnd
    \/ TScan
    \/ TScanEnd

Spec == Init /\ [][Next]_vars

\* ------------------------------------------------ the graph functions called
ivars == <<mode, input, qcircuit, heap, pc, raised, ret, cost, decomposed_N,
           icm_circuit, idx>>

\* g = construct_icm_graph(circuit)
ConstructIcmGraph ==
    /\ gcall.op = "none"
    /\ \/ mode = "graph" /\ pc = "call"
       \/ mode = "to_icm" /\ pc = "returned"
    /\ LET rep == IF mode = "graph" THEN Rep(qcircuit, heap)
                  ELSE Rep(ret, heap)
           r == construct_icm_graph(rep)
       IN  /\ icm_rep' = rep
           /\ graph' = r.g
           /\ gcall' = GraphCall("construct_icm_graph", 0, 0, 0, r.raised)
    /\ before' = graph
    /\ UNCHANGED ncalls
    /\ UNCHANGED ivars

\* the caller holds a graph and goes on to call a function on it
Built ==
    /\ gcall.op # "none"
    /\ ~(gcall.op = "construct_icm_graph" /\ gcall.raised # "none")
    /\ ncalls < MaxCalls

\* g = combine_graph(g, circuit)
CombineGraph ==
    /\ Built
    /\ LET r == combine_graph(graph, icm_rep) IN
       /\ graph' = r.g
       /\ gcall' = GraphCall("combine_graph", 0, 0, 0, r.raised)
    /\ before' = graph
    /\ ncalls' = ncalls + 1
    /\ UNCHANGED icm_rep
    /\ UNCHANGED ivars

\* g = teleport(g, count)
Teleport ==
    /\ Built
    /\ \E count \in 0..MaxCount :
           /\ graph' = teleport(graph, count)
           /\ gcall' = GraphCall("teleport", 0, 0, count, "none")
    /\ before' = graph
    /\ ncalls' = ncalls + 1
    /\ UNCHANGED icm_rep
    /\ UNCHANGED ivars

\* g = two_loop_reduction(g, opt1, opt2)
TwoLoopReduction ==
    /\ Built
    /\ \E opt1 \in 0..MaxOpt, opt2 \in 0..MaxOpt :
           LET r == two_loop_reduction(graph, opt1, opt2) IN
           /\ graph' = r.g
           /\ gcall' = GraphCall("two_loop_reduction", opt1, opt2, 0, r.raised)
    /\ before' = graph
    /\ ncalls' = ncalls + 1
    /\ UNCHANGED icm_rep
    /\ UNCHANGED ivars

\* g = three_loop_reduction(g, opt1, opt2)
ThreeLoopReduction ==
    /\ Built
    /\ \E opt1 \in 0..MaxOpt, opt2 \in 0..MaxOpt :
           LET r == three_loop_reduction(graph, opt1, opt2) IN
           /\ graph' = r.g
           /\ gcall' = GraphCall("three_loop_reduction", opt1, opt2, 0,
                                 r.raised)
    /\ before' = graph
    /\ ncalls' = ncalls + 1
    /\ UNCHANGED icm_rep
    /\ UNCHANGED ivars

InitGraph == \E inp \in GraphInputs : Start(inp)

NextGraph ==
    \/ ToIcmBegin
    \/ PScan
    \/ PScanEnd
    \/ VScan
    \/ VScanEnd
    \/ TScan
    \/ TScanEnd
    \/ ConstructIcmGraph
    \/ CombineGraph
    \/ Teleport
    \/ TwoLoopReduction
    \/ ThreeLoopReduction

GraphSpec == InitGraph /\ [][NextGraph]_vars

\* ------------------------------------------------------------------ claims
Returned(m) == mode = m /\ pc = "returned"

\* the values in a gate's lists (<<>> for None)
TargetsOf(g) == IF g.targets = None THEN <<>> ELSE heap[g.targets]
ControlsOf(g) == IF g.controls = None THEN <<>> ELSE heap[g.controls]

InputHas(name) == \E i \in 1..Len(qcircuit.gates) : qcircuit.gates[i].name = name

Tagged(g) == g.arg_label \in {"ancilla", "measurement", "correction"}

AncillaCount(gates) ==
    Cardinality({i \in 1..Len(gates) : gates[i].arg_label = "ancilla"})

\* C1: the circuit to_icm returns is in ICM form: each gate is an IN, an OUT,
\* a CNOT or a gate tagged ancilla, measurement or correction, and no RX, RZ,
\* SNOT or TOFFOLI gate is left.
C1_IcmForm ==
    Returned("to_icm") =>
        \A i \in 1..Len(ret.gates) :
            /\ \/ ret.gates[i].name \in {"IN", "OUT", "CNOT"}
               \/ Tagged(ret.gates[i])
            /\ ret.gates[i].name \notin {"RX", "RZ", "SNOT", "TOFFOLI"}

C1_Witness ==
    /\ Returned("to_icm")
    /\ InputHas("TOFFOLI")
    /\ \E i \in 1..Len(ret.gates) : ret.gates[i].name = "a"
    /\ \E i \in 1..Len(ret.gates) : ret.gates[i].name = "Y"

\* C2: the qubit count of the circuit to_icm returns is the decomposed
\* circuit's qubit count plus the number of ancilla-tagged gates the scans
\* inserted, which is the sum of the ancilla_cost entries.
C2_QubitCount ==
    Returned("to_icm") =>
        /\ ret.N = decomposed_N + AncillaCount(ret.gates)
        /\ SumCost(cost) = AncillaCount(ret.gates)

C2_Witness ==
    /\ Returned("to_icm")
    /\ InputHas("TOFFOLI")
    /\ cost.TOFFOLI = 42
    /\ AncillaCount(ret.gates) = 42

\* C3: when the input's first and last gates are CNOTs, the first and the
\* last gate of the circuit to_icm returns are CNOTs; for the circuits of
\* test_icm_P and test_icm_V the first is CNOT(0 -> 2), the last CNOT(2 -> 1).
C3_FirstLastCnot ==
    (/\ Returned("to_icm")
     /\ Len(qcircuit.gates) > 0
     /\ qcircuit.gates[1].name = "CNOT"
     /\ qcircuit.gates[Len(qcircuit.gates)].name = "CNOT") =>
        LET first == ret.gates[1]
            last == ret.gates[Len(ret.gates)]
        IN  /\ first.name = "CNOT"
            /\ last.name = "CNOT"
            /\ input \in {TestIcmP, TestIcmV} =>
                   /\ ControlsOf(first) = <<0>> /\ TargetsOf(first) = <<2>>
                   /\ ControlsOf(last) = <<2>> /\ TargetsOf(last) = <<1>>

\* C4: while to_icm scans and in the circuit it returns, every target and
\* control index of every gate of the ICM gate list is >= 0 and < N.
InputIndicesBelowN ==
    \A i \in 1..Len(input.descs) :
        /\ \A k \in 1..Len(input.descs[i].t) : input.descs[i].t[k] < input.N
        /\ \A k \in 1..Len(input.descs[i].c) : input.descs[i].c[k] < input.N

C4_IndicesBelowN ==
    (mode = "to_icm" /\ pc \in {"P", "V", "T", "returned"}
         /\ InputIndicesBelowN) =>
        \A i \in 1..Len(icm_circuit.gates) :
            LET g == icm_circuit.gates[i] IN
            /\ \A k \in 1..Len(TargetsOf(g)) :
                   TargetsOf(g)[k] >= 0 /\ TargetsOf(g)[k] < icm_circuit.N
            /\ \A k \in 1..Len(ControlsOf(g)) :
                   ControlsOf(g)[k] >= 0 /\ ControlsOf(g)[k] < icm_circuit.N

\* the number of gates before position i that satisfy Test
CountBefore(gates, i, Test(_)) ==
    Cardinality({k \in 1..(i - 1) : Test(gates[k])})

LabelledPi(g) == g.arg_label = "pi"
IsRotation(g) == g.name \in {"RX", "RZ"}
IsToffoli(g) == g.name = "TOFFOLI"
IsSnot(g) == g.name = "SNOT"

\* C5: decompose_gates puts, in the place of every rotation labelled pi, two
\* consecutive gates of the same name, targets and controls with angle label
\* pi/2 and angle value pi/2; the other gates keep their relative order.
C5_PiSplit ==
    Returned("decompose_gates") =>
        \A i \in 1..Len(qcircuit.gates) :
            LET g == qcircuit.gates[i]
                p == i + CountBefore(qcircuit.gates, i, LabelledPi)
            IN  /\ p <= Len(ret.gates)
                /\ (IsRotation(g) /\ LabelledPi(g)) =>
                       /\ p + 1 <= Len(ret.gates)
                       /\ \A q \in {p, p + 1} :
                              /\ ret.gates[q].name = g.name
                              /\ ret.gates[q].targets = g.targets
                              /\ ret.gates[q].controls = g.controls
                              /\ ret.gates[q].arg_label = "pi/2"
                              /\ ret.gates[q].arg_value = "pi/2"
                /\ ~LabelledPi(g) => ret.gates[p] = g

C5_Witness ==
    /\ Returned("decompose_gates")
    /\ \E i \in 2..Len(qcircuit.gates) :
           /\ IsRotation(qcircuit.gates[i]) /\ LabelledPi(qcircuit.gates[i])
           /\ ~LabelledPi(qcircuit.gates[i - 1])
    /\ Len(ret.gates) = Len(qcircuit.gates) + 1

ClaimedRotations ==
    {<<"RX", "pi/2">>, <<"RX", "-pi/2">>, <<"RZ", "pi/2">>, <<"RZ", "-pi/2">>,
     <<"RZ", "pi/4">>, <<"RZ", "-pi/4">>}

IsPhase(g) == g.name = "GLOBALPHASE"
IsPiPhase(g) == IsPhase(g) /\ LabelledPi(g)

Unsupported(g) ==
    /\ IsRotation(g)
    /\ ~LabelledPi(g)
    /\ <<g.name, g.arg_label>> \notin ClaimedRotations

C7_UnsupportedRaises ==
    (/\ mode = "decompose_gates"
     /\ pc # "call"
     /\ \E i \in 1..Len(qcircuit.gates) : Unsupported(qcircuit.gates[i])) =>
        /\ pc = "raised"
        /\ raised = "ValueError"
        /\ ret = NoCircuit

C7_Witness ==
    /\ mode = "decompose_gates"
    /\ pc = "raised"
    /\ Len(qcircuit.gates) >= 2
    /\ Unsupported(qcircuit.gates[Len(qcircuit.gates)])
    /\ \A i \in 1..(Len(qcircuit.gates) - 1) : ~Unsupported(qcircuit.gates[i])

\* the gates of a returned circuit as (name, label, targets, controls)
Shape(g) == <<g.name, g.arg_label, TargetsOf(g), ControlsOf(g)>>
ShapeCnot(c, t) == <<"CNOT", NoArg, <<t>>, <<c>>>>
ShapeSnot(t) == <<"SNOT", NoArg, <<t>>, <<>>>>
ShapeT(t) == <<"RZ", "pi/4", <<t>>, <<>>>>
ShapeTdg(t) == <<"RZ", "-pi/4", <<t>>, <<>>>>
ShapeP(t) == <<"RZ", "pi/2", <<t>>, <<>>>>
ShapeV(t) == <<"RX", "pi/2", <<t>>, <<>>>>

ClaimedToffoli(c1, c2, t) ==
    <<ShapeSnot(t), ShapeCnot(c2, t), ShapeTdg(t), ShapeCnot(c1, t),
      ShapeT(t), ShapeCnot(c2, t), ShapeTdg(t), ShapeCnot(c1, t),
      ShapeTdg(c2), ShapeT(t), ShapeSnot(t), ShapeCnot(c1, c2),
      ShapeTdg(c2), ShapeCnot(c1, c2), ShapeT(c1), ShapeP(c2)>>

ClaimedLen == Len(ClaimedToffoli(0, 0, 0))

\* C8: decompose_toffoli puts, in the place of every TOFFOLI, the gates
\* SNOT(t) CNOT(c2->t) Tdg(t) CNOT(c1->t) T(t) CNOT(c2->t) Tdg(t) CNOT(c1->t)
\* Tdg(c2) T(t) SNOT(t) CNOT(c1->c2) Tdg(c2) CNOT(c1->c2) T(c1) P(c2) in this
\* order, and copies every other gate unchanged in its relative order.
C8_ToffoliSequence ==
    Returned("decompose_toffoli") =>
        \A i \in 1..Len(qcircuit.gates) :
            LET g == qcircuit.gates[i]
                seq == ClaimedToffoli(ControlsOf(g)[1], ControlsOf(g)[2],
                                      TargetsOf(g)[1])
                p == i + (ClaimedLen - 1)
                           * CountBefore(qcircuit.gates, i, IsToffoli)
            IN  IF IsToffoli(g)
                THEN /\ p + Len(seq) - 1 <= Len(ret.gates)
                     /\ \A k \in 1..Len(seq) :
                            Shape(ret.gates[p + k - 1]) = seq[k]
                ELSE /\ p <= Len(ret.gates)
                     /\ ret.gates[p] = g

C8_Witness ==
    /\ Returned("decompose_toffoli")
    /\ \E i \in 2..(Len(qcircuit.gates) - 1) :
           /\ IsToffoli(qcircuit.gates[i])
           /\ ~IsToffoli(qcircuit.gates[i - 1])
           /\ ~IsToffoli(qcircuit.gates[i + 1])

ToffoliCount == CountBefore(qcircuit.gates, Len(qcircuit.gates) + 1, IsToffoli)

\* C9 as stated: a single TOFFOLI on five qubits becomes exactly 15 gates,
\* and k TOFFOLI gates among m other gates become m + 15k gates.
C9_FifteenGates ==
    Returned("decompose_toffoli") =>
        /\ Len(ret.gates)
               = (Len(qcircuit.gates) - ToffoliCount) + 15 * ToffoliCount
        /\ input = SingleToffoli => Len(ret.gates) = 15

\* C9 amended: a single TOFFOLI on five qubits becomes exactly 16 gates, and
\* k TOFFOLI gates among m other gates become m + 16k gates.
C9_SixteenGates ==
    Returned("decompose_toffoli") =>
        /\ Len(ret.gates)
               = (Len(qcircuit.gates) - ToffoliCount) + 16 * ToffoliCount
        /\ input = SingleToffoli => Len(ret.gates) = 16

C9_Witness ==
    /\ Returned("decompose_toffoli")
    /\ input = SingleToffoli
    /\ Len(ret.gates) = 16

\* C10: decompose_SNOT puts, in the place of every SNOT(t), the three gates
\* P(t) = RZ(pi/2), V(t) = RX(pi/2), P(t) = RZ(pi/2) in this order on the same
\* target, and copies every other gate unchanged in its relative order.
C10_SnotSequence ==
    Returned("decompose_SNOT") =>
        /\ Len(ret.gates) = Len(qcircuit.gates)
               + 2 * CountBefore(qcircuit.gates, Len(qcircuit.gates) + 1,
                                 IsSnot)
        /\ \A i \in 1..Len(qcircuit.gates) :
               LET g == qcircuit.gates[i]
                   t == TargetsOf(g)[1]
                   p == i + 2 * CountBefore(qcircuit.gates, i, IsSnot)
               IN  IF IsSnot(g)
                   THEN /\ Shape(ret.gates[p]) = ShapeP(t)
                        /\ Shape(ret.gates[p + 1]) = ShapeV(t)
                        /\ Shape(ret.gates[p + 2]) = ShapeP(t)
                        /\ ret.gates[p].arg_value = "pi/2"
                        /\ ret.gates[p + 1].arg_value = "pi/2"
                        /\ ret.gates[p + 2].arg_value = "pi/2"
                   ELSE ret.gates[p] = g

C10_Witness ==
    /\ Returned("decompose_SNOT")
    /\ \E i \in 2..(Len(qcircuit.gates) - 1) :
           /\ IsSnot(qcircuit.gates[i])
           /\ ~IsSnot(qcircuit.gates[i - 1])
           /\ ~IsSnot(qcircuit.gates[i + 1])

\* the number of gates of the circuit passed in with this name and a label of
\* the set
CountGates(name, labels) ==
    Cardinality({i \in 1..Len(qcircuit.gates) :
                     /\ qcircuit.gates[i].name = name
                     /\ qcircuit.gates[i].arg_label \in labels})

\* C11: the map ancilla_cost returns has P = number of P/P_dagger gates,
\* V = number of V/V_dagger gates, T = 5 x number of T/T_dagger gates,
\* SNOT = 3 x number of SNOT gates, TOFFOLI = 42 x number of TOFFOLI gates of
\* the decomposed circuit, a rotation labelled pi counting as two pi/2
\* rotations and CNOTs as nothing; the circuit of test_ancilla_cost gives
\* TOFFOLI = 84, SNOT = 6, V = 2.
C11_AncillaCost ==
    /\ Returned("ancilla_cost") =>
           /\ cost.P = CountGates("RZ", {"pi/2", "-pi/2"})
                            + 2 * CountGates("RZ", {"pi"})
           /\ cost.V = CountGates("RX", {"pi/2", "-pi/2"})
                            + 2 * CountGates("RX", {"pi"})
           /\ cost.T = 5 * CountGates("RZ", {"pi/4", "-pi/4"})
           /\ cost.SNOT = 3 * CountGates("SNOT", {NoArg})
           /\ cost.TOFFOLI = 42 * CountGates("TOFFOLI", {NoArg})
    /\ (input = TestAncillaCost /\ pc # "call") =>
           /\ pc = "returned"
           /\ cost = [P |-> 0, T |-> 0, V |-> 2, SNOT |-> 6, TOFFOLI |-> 84]

C11_Witness ==
    /\ Returned("ancilla_cost")
    /\ input = TestAncillaCost
    /\ cost.TOFFOLI = 84 /\ cost.SNOT = 6 /\ cost.V = 2

\* --------------------------------------------------- claims about the graph
GraphOps ==
    {"combine_graph", "teleport", "two_loop_reduction", "three_loop_reduction"}

CnotsOf(rep) == SelectSeq(rep.gates, IsCnotGate)

\* the edges of a graph, each as the set of its ends
Edges(g) ==
    UNION {{{n, g.adj[n][k]} : k \in 1..Len(g.adj[n])} : n \in NodeSet(g)}

NeighbourSet(g, n) == {g.adj[n][k] : k \in 1..Len(g.adj[n])}

\* C12: construct_icm_graph, given a circuit with k CNOT gates, returns a
\* graph of 4k nodes and 3k edges in which the rough node of the i-th CNOT
\* (control c, target t) is adjacent to exactly (i,c,cleft), (i,c,cright) and
\* (i,t,target), which have no other neighbour; the circuit of the single
\* gate CNOT(control=0, target=1) gives 4 nodes and 3 edges.
C12_StarPerCnot ==
    gcall.op = "construct_icm_graph" =>
        LET cnots == CnotsOf(icm_rep)
            k == Len(cnots)
        IN  /\ gcall.raised = "none"
            /\ Len(graph.nodes) = 4 * k
            /\ Cardinality(NodeSet(graph)) = 4 * k
            /\ Cardinality(Edges(graph)) = 3 * k
            /\ \A i \in 1..k :
                   LET c == cnots[i].control
                       t == cnots[i].target
                       rough == Rough(i - 1, c, t)
                       three == {Touch(i - 1, c, "cleft"),
                                 Touch(i - 1, c, "cright"),
                                 Touch(i - 1, t, "target")}
                   IN  /\ rough \in NodeSet(graph)
                       /\ three \subseteq NodeSet(graph)
                       /\ NeighbourSet(graph, rough) = three
                       /\ \A n \in three : NeighbourSet(graph, n) = {rough}

\* C13: after every call of combine_graph, teleport, two_loop_reduction or
\* three_loop_reduction that returns, the graph has at most as many nodes as
\* before the call and no edge from a node to itself.
C13_NoGrowthNoLoops ==
    (gcall.op \in GraphOps /\ gcall.raised = "none") =>
        /\ Len(graph.nodes) <= Len(before.nodes)
        /\ \A n \in NodeSet(graph) : n \notin NeighbourSet(graph, n)

C13_Witness ==
    /\ ncalls = 2
    /\ gcall.op = "teleport" /\ gcall.raised = "none"
    /\ Len(graph.nodes) = Len(before.nodes) - 2
    /\ \E n \in NodeSet(graph) : Len(graph.adj[n]) = 2

\* a node without a pin: the attribute unset or an empty list
HasNoPin(g, n) == g.pin[n].pins = <<>>

\* the nodes without a pin of this degree, in the order of the graph
Candidates(g, degree) ==
    SelectSeq(g.nodes, LAMBDA n : HasNoPin(g, n) /\ Len(g.adj[n]) = degree)

\* the neighbours without a pin of a node, in the order of the graph
PinFreeNeighbours(g, node) == SelectSeq(g.adj[node], LAMBDA n : HasNoPin(g, n))

LoopDegree(op) == IF op = "two_loop_reduction" THEN 2 ELSE 3
LoopOps == {"two_loop_reduction", "three_loop_reduction"}

\* C14: two_loop_reduction on a graph without a pin-free node of degree 2
\* (three_loop_reduction: of degree 3) returns without raising and leaves
\* nodes, edges and attributes as they were, however often it is called.
C14_NoCandidateNoOp ==
    (gcall.op \in LoopOps
         /\ Len(Candidates(before, LoopDegree(gcall.op))) = 0) =>
        /\ gcall.raised = "none"
        /\ graph = before

C14_Witness ==
    /\ ncalls = 2
    /\ gcall.op = "two_loop_reduction"
    /\ Len(before.nodes) > 0
    /\ Len(Candidates(before, 2)) = 0
    /\ Len(Candidates(before, 3)) > 0
    /\ graph = before

\* C15: two_loop_reduction and three_loop_reduction called with an opt1 that
\* is no index of the candidate list, or an opt2 that is no index of the
\* chosen candidate's pin-free neighbours, raise nothing and leave the graph
\* unchanged.
C15_InvalidIndexNoOp ==
    gcall.op \in LoopOps =>
        LET candidates == Candidates(before, LoopDegree(gcall.op))
            invalid1 == gcall.opt1 >= Len(candidates)
            invalid2 ==
                /\ ~invalid1
                /\ gcall.opt2 >= Len(PinFreeNeighbours(before,
                                         candidates[gcall.opt1 + 1]))
        IN  (invalid1 \/ invalid2) =>
                /\ gcall.raised = "none"
                /\ graph = before

\* ------------------------------------------------ claims about the scans
\* a step of a scan that put a gadget in the place of a rotation
GadgetStep == pc \in {"P", "V", "T"} /\ pc' = pc /\ icm_circuit' # icm_circuit

StatedShift(kind) == IF kind = "T" THEN 5 ELSE 1
StatedLen(kind) == IF kind = "T" THEN 16 ELSE 4

\* the first target / control of a gate as a heap holds it
FirstTarget(h, gate) == h[gate.targets][1]
FirstControl(h, gate) == h[gate.controls][1]
Controlled(h, gate) == gate.controls # None /\ Len(h[gate.controls]) > 0

Moved(x, moves, s) == IF moves THEN x + s ELSE x

C16_Step ==
    GadgetStep =>
        LET j == idx'
            old == icm_circuit.gates
            new == icm_circuit'.gates
            t == FirstTarget(heap, old[j])
            s == StatedShift(pc)
            n == StatedLen(pc)
        IN  /\ \A i \in 1..(j - 1) :
                   LET x == FirstTarget(heap, old[i])
                       c == FirstControl(heap, old[i])
                   IN  /\ new[i] = old[i]
                       /\ FirstTarget(heap', new[i]) =
                              Moved(x, ~Tagged(old[i]) /\ x > t, s)
                       /\ Controlled(heap, old[i]) =>
                              FirstControl(heap', new[i]) =
                                  Moved(c, ~Tagged(old[i]) /\ c > t, s)
            /\ \A i \in (j + 1)..Len(old) :
                   LET x == FirstTarget(heap, old[i])
                       c == FirstControl(heap, old[i])
                   IN  /\ new[i + n - 1] = old[i]
                       /\ FirstTarget(heap', old[i]) = Moved(x, x >= t, s)
                       /\ Controlled(heap, old[i]) =>
                              FirstControl(heap', old[i]) = Moved(c, c >= t, s)

C16_Example ==
    (Returned("to_icm") /\ input = TestIcmT) =>
        /\ ret.gates[3].name = "CNOT"
        /\ ControlsOf(ret.gates[3]) = <<0>>
        /\ TargetsOf(ret.gates[3]) = <<6>>

\* C16: when a scan of to_icm replaces a rotation on qubit t at position idx
\* (shift s = 1 for P and V, 5 for T), every gate before idx that is not
\* tagged ancilla, measurement or correction has its target, and on its own
\* its control, increased by s exactly when it is > t; every gate after the
\* gadget has its target, and on its own its control, increased by s exactly
\* when it is >= t; tagged gates before idx stay as they are.  In the circuit
\* of test_icm_T the leading CNOT(0 -> 1) becomes CNOT(0 -> 6).
C16_ShiftRule == [][C16_Step /\ C16_Example']_vars

\* name, targets, controls and tag of a gate as a heap holds them
ShapeIn(h, gate) ==
    <<gate.name,
      IF gate.targets = None THEN <<>> ELSE h[gate.targets],
      IF gate.controls = None THEN <<>> ELSE h[gate.controls],
      gate.arg_label>>

Prepared(name, t) == <<name, <<t>>, <<>>, "ancilla">>
Measured(name, t) == <<name, <<t>>, <<>>, "measurement">>
Corrected(name, c, t) == <<name, <<t>>, <<c>>, "correction">>
Entangled(c, t) == <<"CNOT", <<t>>, <<c>>, NoArg>>

\* the gadgets with the names the statement gives them
StatedGadget(kind, t) ==
    IF kind = "P"
    THEN <<Prepared("Y", t + 1), Entangled(t + 1, t), Measured("Z", t),
           Corrected("XZ", t, t + 1)>>
    ELSE IF kind = "V"
    THEN <<Prepared("y", t + 1), Entangled(t, t + 1), Measured("X", t),
           Corrected("X/Z", t, t + 1)>>
    ELSE <<Prepared("a", t + 1), Prepared("0", t + 2), Prepared("y", t + 3),
           Prepared("+", t + 4), Prepared("0", t + 5),
           Entangled(t + 1, t), Entangled(t + 1, t + 2),
           Entangled(t + 3, t + 1), Entangled(t + 4, t + 2),
           Entangled(t + 3, t + 5), Entangled(t + 4, t + 5),
           Measured("Z", t),
           Corrected("Z/X", t, t + 1), Corrected("X/Z", t + 1, t + 2),
           Corrected("X/Z", t + 2, t + 3), Corrected("Z/X", t + 3, t + 4)>>

\* the gadgets with measurement and correction names in lower case
LowerCaseGadget(kind, t) ==
    IF kind = "P"
    THEN <<Prepared("Y", t + 1), Entangled(t + 1, t), Measured("z", t),
           Corrected("xz", t, t + 1)>>
    ELSE IF kind = "V"
    THEN <<Prepared("y", t + 1), Entangled(t, t + 1), Measured("x", t),
           Corrected("x/z", t, t + 1)>>
    ELSE <<Prepared("a", t + 1), Prepared("0", t + 2), Prepared("y", t + 3),
           Prepared("+", t + 4), Prepared("0", t + 5),
           Entangled(t + 1, t), Entangled(t + 1, t + 2),
           Entangled(t + 3, t + 1), Entangled(t + 4, t + 2),
           Entangled(t + 3, t + 5), Entangled(t + 4, t + 5),
           Measured("z", t),
           Corrected("z/x", t, t + 1), Corrected("x/z", t + 1, t + 2),
           Corrected("x/z", t + 2, t + 3), Corrected("z/x", t + 3, t + 4)>>

\* the gates from position idx on are those of the gadget, and the gate
\* that was replaced was a rotation, not a gate of an earlier gadget
GadgetWritten(Claimed(_, _)) ==
    GadgetStep =>
        LET j == idx'
            old == icm_circuit.gates
            new == icm_circuit'.gates
            t == FirstTarget(heap, old[j])
            n == StatedLen(pc)
        IN  /\ old[j].name \in {"RX", "RZ"} /\ ~Tagged(old[j])
            /\ Len(new) = Len(old) + n - 1
            /\ Len(Claimed(pc, t)) = n
            /\ \A k \in 1..n : ShapeIn(heap', new[j + k - 1]) = Claimed(pc, t)[k]

\* C17 as stated: the gates written from position idx on for a rotation on
\* qubit t are ancilla 'Y', CNOT(t+1 -> t), measurement Z, correction 'XZ'
\* for P; ancilla 'y', CNOT(t -> t+1), measurement X, correction 'X/Z' for V;
\* ancillae 'a','0','y','+','0', six CNOTs, measurement Z and corrections
\* 'Z/X','X/Z','X/Z','Z/X' for T.
C17_GadgetAsStated == [][GadgetWritten(StatedGadget)]_vars

\* C17, amended: the same gates on the same qubits, 4 for P and V and 16 for
\* T, with the measurement named 'z' (P, T) or 'x' (V) and the corrections
\* named 'xz' (P), 'x/z' (V) and 'z/x','x/z','x/z','z/x' (T); the gate
\* replaced is always a rotation, never a gate of a gadget.
C17_GadgetLowerCase == [][GadgetWritten(LowerCaseGadget)]_vars

C17_Witness ==
    /\ mode = "to_icm" /\ pc = "T" /\ idx > 0
    /\ icm_circuit.gates[idx].name = "a"
    /\ \E i \in 1..Len(icm_circuit.gates) : icm_circuit.gates[i].name = "Y"
    /\ \E i \in 1..Len(icm_circuit.gates) : icm_circuit.gates[i].name = "y"

\* ------------------------------------------ claims about pins and mergers
\* the line of a qubit: the roles of the gates that are not CNOTs and the
\* touches of the CNOTs on it, in the order of the circuit
RECURSIVE Line(_, _, _, _)
Line(rep, bit, i, gate_count) ==
    IF i > Len(rep.gates) THEN <<>>
    ELSE LET gate == rep.gates[i] IN
         IF gate.name # "CNOT"
         THEN (IF gate.target = bit THEN <<Marker(gate.arg_label)>> ELSE <<>>)
                  \o Line(rep, bit, i + 1, gate_count)
         ELSE (IF gate.control = bit
               THEN <<Touch(gate_count, bit, "cleft"),
                      Touch(gate_count, bit, "cright")>>
               ELSE <<>>)
                  \o (IF gate.target = bit
                      THEN <<Touch(gate_count, bit, "target")>> ELSE <<>>)
                  \o Line(rep, bit, i + 1, gate_count + 1)

IsMarker(entry) == entry[1] = -1

\* the pins the marker next to a node gives it: d = -1 the entry before the
\* node on its line, d = 1 the entry after it
PinsFrom(rep, node, d) ==
    LET line == Line(rep, node[2][1], 1, 0)
        p == Index(line, node) + d
    IN  IF p < 1 \/ p > Len(line) THEN {}
        ELSE IF ~IsMarker(line[p]) THEN {}
        ELSE IF line[p][3] \in {"input", "output", "measurement", "correction"}
        THEN {"cap"}
        ELSE IF line[p][3] = "ancilla" THEN {"injector"}
        ELSE {}

PinSet(g, n) == {g.pin[n].pins[k] : k \in 1..Len(g.pin[n].pins)}

\* C18: in the graph construct_icm_graph returns, the pin of a cleft node is
\* the one the marker just before it on its line gives (cap for input,
\* output, measurement, correction; injector for ancilla; unset otherwise),
\* the pin of a cright node the one of the marker just after it, the pin of
\* a target node comes from the markers just before and just after it, and a
\* target just after an ancilla preparation has the pin injector; no node is
\* given a pin by a marker at the other end of its line.
C18_PinsFromNeighbours ==
    (gcall.op = "construct_icm_graph" /\ gcall.raised = "none") =>
        \A n \in NodeSet(graph) :
            /\ Role(n) = "cleft" =>
                   PinSet(graph, n) = PinsFrom(icm_rep, n, -1)
            /\ Role(n) = "cright" =>
                   PinSet(graph, n) = PinsFrom(icm_rep, n, 1)
            /\ Role(n) = "target" =>
                   /\ PinSet(graph, n) \subseteq
                          PinsFrom(icm_rep, n, -1) \cup PinsFrom(icm_rep, n, 1)
                   /\ PinsFrom(icm_rep, n, -1) \cup PinsFrom(icm_rep, n, 1) # {}
                          => PinSet(graph, n) # {}
                   /\ PinsFrom(icm_rep, n, -1) = {"injector"}
                          => "injector" \in PinSet(graph, n)

\* the touches of a line
Touches(rep, bit) == SelectSeq(Line(rep, bit, 1, 0), LAMBDA e : ~IsMarker(e))

\* the nodes that are merged into an earlier node of their line: the touch
\* after a cright, and the touches after a target up to the next cright
MergedAway(rep) ==
    UNION {LET row == Touches(rep, bit) IN
           {row[k] : k \in {m \in 2..Len(row) :
                \/ Role(row[m - 1]) = "cright"
                \/ /\ Role(row[m]) # "cright"
                   /\ \E j \in 1..(m - 1) :
                          /\ Role(row[j]) = "target"
                          /\ \A x \in (j + 1)..m : Role(row[x]) # "cright"}}
           : bit \in 0..(rep.N - 1)}

\* C19: combine_graph, on the graph built from a circuit, returns a graph in
\* which each cright is merged with the touch after it on its line and each
\* target with the whole run of touches after it up to the next cright, for
\* runs of any length; no pin of a node is lost in the merge.
C19_RunsMerged ==
    (gcall.op = "combine_graph" /\ ncalls = 1) =>
        /\ gcall.raised = "none"
        /\ NodeSet(graph) = NodeSet(before) \ MergedAway(icm_rep)
        /\ \A n \in NodeSet(graph) : PinSet(before, n) \subseteq PinSet(graph, n)
        /\ \A n \in NodeSet(graph) :
               PinSet(graph, n) \subseteq
                   UNION {PinSet(before, m) : m \in NodeSet(before)}

\* C20: two_loop_reduction (three_loop_reduction) with valid opt1 and opt2
\* removes the opt1-th pin-free node of degree 2 (3) and, as the second
\* node, the opt2-th pin-free neighbour of that same node.
C20_SecondIsNeighbour ==
    gcall.op \in LoopOps =>
        LET candidates == Candidates(before, LoopDegree(gcall.op))
            first == candidates[gcall.opt1 + 1]
            optional == PinFreeNeighbours(before, first)
        IN  (/\ gcall.opt1 < Len(candidates)
             /\ gcall.opt2 < Len(optional)) =>
                /\ gcall.raised = "none"
                /\ NodeSet(graph) =
                       NodeSet(before) \ {first, optional[gcall.opt2 + 1]}

\* what a graph is to its user: nodes, edges, the pins of each node, and the
\* nodes a loop reduction takes as pin-free
ViewOf(g) ==
    [nodes |-> NodeSet(g),
     edges |-> Edges(g),
     pins |-> [n \in NodeSet(g) |-> PinSet(g, n)],
     pinfree |-> {n \in NodeSet(g) : PinFree(g, n)}]

EdgesAt(v, n) == {e \in v.edges : n \in e}

\* the leaf goes into its sole neighbour, which gets the pins of both and is
\* pin-free exactly when there is none
ContractLeaf(v, leaf) ==
    LET into == CHOOSE n \in v.nodes : {leaf, n} \in v.edges
        joined == v.pins[leaf] \cup v.pins[into]
    IN  [nodes |-> v.nodes \ {leaf},
         edges |-> v.edges \ {{leaf, into}},
         pins |-> [n \in v.nodes \ {leaf} |->
                      IF n = into THEN joined ELSE v.pins[n]],
         pinfree |-> IF joined = {} THEN (v.pinfree \ {leaf}) \cup {into}
                     ELSE v.pinfree \ {leaf, into}]

\* the nodes of order from the i-th on, taken one after the other, at most
\* left of them contracted
RECURSIVE StatedTeleport(_, _, _, _)
StatedTeleport(v, order, i, left) ==
    IF i > Len(order) \/ left = 0 THEN v
    ELSE IF Cardinality(EdgesAt(v, order[i])) = 1
    THEN StatedTeleport(ContractLeaf(v, order[i]), order, i + 1, left - 1)
    ELSE StatedTeleport(v, order, i + 1, left)

\* C21: teleport(g, count=k) contracts at most k nodes of degree 1, each into
\* its sole neighbour, in the order of the nodes of g; the surviving
\* neighbour has the pins of both, and when neither had a pin its pin is
\* unset, so that a later two_loop_reduction or three_loop_reduction takes it
\* as pin-free.
C21_TeleportUnion ==
    gcall.op = "teleport" =>
        /\ gcall.raised = "none"
        /\ Cardinality(NodeSet(before) \ NodeSet(graph)) <= gcall.count
        /\ ViewOf(graph) = StatedTeleport(ViewOf(before), before.nodes, 1,
                                          gcall.count)

\* the positions of the gates that initialise a qubit: IN and ancilla gates
Initialising(gates) ==
    {i \in 1..Len(gates) :
         gates[i].name = "IN" \/ gates[i].arg_label = "ancilla"}

\* C22: in the circuit to_icm returns, the targets of the IN gates and of the
\* gates tagged ancilla are pairwise distinct and are the indices 0..N-1:
\* each qubit is initialised exactly once, for any number and order of P, V
\* and T rotations.
C22_InitialisedOnce ==
    (Returned("to_icm") /\ InputIndicesBelowN) =>
        LET inits == Initialising(ret.gates) IN
        /\ \A i \in inits : \A j \in inits :
               i # j => FirstTarget(heap, ret.gates[i])
                            # FirstTarget(heap, ret.gates[j])
        /\ {FirstTarget(heap, ret.gates[i]) : i \in inits} = 0..(ret.N - 1)

====
